---- MODULE Spec2Model ----
(***************************************************************************)
(* Model of briacl/scraper-cinema: the scraping pipeline (scrape.py) and   *)
(* the HTTP gateway that launches it (scrape_server.py).                   *)
(*                                                                         *)
(* Strings are sequences of one-character strings, so that the regular     *)
(* expressions, the glob patterns and the string formatting of the code    *)
(* are modelled by what they do to the characters.                         *)
(***************************************************************************)
EXTENDS Integers, Sequences, FiniteSets, TLC

VARIABLES now, latest, dirs, files, req,
          cpc, pagination, first_cards, max_page, page, films, trace, failed,
          ppc, film_title, anchors, url_date, spans, showtimes, unique, seen, result,
          arg, calls

gwVars == <<now, latest, dirs, files, req>>
crawlVars == <<cpc, pagination, first_cards, max_page, page, films, trace, failed>>
parseVars == <<ppc, film_title, anchors, url_date, spans, showtimes, unique, seen, result>>
sanVars == <<arg, calls>>
vars == <<now, latest, dirs, files, req,
          cpc, pagination, first_cards, max_page, page, films, trace, failed,
          ppc, film_title, anchors, url_date, spans, showtimes, unique, seen, result,
          arg, calls>>

-----------------------------------------------------------------------------
(* Characters and strings                                                  *)

Digits == {"0", "1", "2", "3", "4", "5", "6", "7", "8", "9"}
Lower == {"a", "b", "c", "d", "e", "f", "g", "h", "i", "j", "k", "l", "m",
          "n", "o", "p", "q", "r", "s", "t", "u", "v", "w", "x", "y", "z"}
Upper == {"A", "B", "C", "D", "E", "F", "G", "H", "I", "J", "K", "L", "M",
          "N", "O", "P", "Q", "R", "S", "T", "U", "V", "W", "X", "Y", "Z"}

\* Python's None, kept apart from every string (no character is "<None>").
None == <<"<None>">>

\* Python truthiness of an optional string: None and "" are falsy.
Falsy(s) == s = None \/ s = <<>>

\* All strings over the characters cs of length 0..n.
StringsUpTo(cs, n) == UNION {[1..k -> cs] : k \in 0..n}

IsPrefix(p, s) == Len(p) <= Len(s) /\ SubSeq(s, 1, Len(p)) = p

IsSuffix(p, s) == Len(p) <= Len(s) /\ SubSeq(s, Len(s) - Len(p) + 1, Len(s)) = p

\* p occurs in s starting at position i (1-based).
OccursAt(p, s, i) == i + Len(p) - 1 <= Len(s) /\ SubSeq(s, i, i + Len(p) - 1) = p

\* Python's `p in s` on strings.
Contains(s, p) == \E i \in 1..(Len(s) + 1) : OccursAt(p, s, i)

RECURSIVE DropWhileIn(_, _)
DropWhileIn(s, cs) ==
    IF s # <<>> /\ Head(s) \in cs THEN DropWhileIn(Tail(s), cs) ELSE s

RECURSIVE Reverse(_)
Reverse(s) == IF s = <<>> THEN <<>> ELSE Append(Reverse(Tail(s)), Head(s))

\* str.strip(chars): drop the characters of cs from both ends.
StripChars(s, cs) == Reverse(DropWhileIn(Reverse(DropWhileIn(s, cs)), cs))

-----------------------------------------------------------------------------
(* sanitize_for_filename                                                   *)

\* The class [0-9A-Za-z\-] of the first regular expression.
SafeChar(c) == c \in Digits \cup Lower \cup Upper \cup {"-"}

\* re.sub(r"[^0-9A-Za-z\-]+", "_", s): each maximal run of characters outside
\* the class becomes one underscore.
RECURSIVE SubUnsafeRuns(_, _)
SubUnsafeRuns(s, inRun) ==
    IF s = <<>> THEN <<>>
    ELSE IF SafeChar(Head(s)) THEN <<Head(s)>> \o SubUnsafeRuns(Tail(s), FALSE)
    ELSE IF inRun THEN SubUnsafeRuns(Tail(s), TRUE)
    ELSE <<"_">> \o SubUnsafeRuns(Tail(s), TRUE)

\* re.sub(r"_+", "_", s): each maximal run of underscores becomes one.
RECURSIVE SubUnderscoreRuns(_, _)
SubUnderscoreRuns(s, inRun) ==
    IF s = <<>> THEN <<>>
    ELSE IF Head(s) # "_" THEN <<Head(s)>> \o SubUnderscoreRuns(Tail(s), FALSE)
    ELSE IF inRun THEN SubUnderscoreRuns(Tail(s), TRUE)
    ELSE <<"_">> \o SubUnderscoreRuns(Tail(s), TRUE)

Unknown == <<"u", "n", "k", "n", "o", "w", "n">>

sanitize_for_filename(s) ==
    IF Falsy(s) THEN Unknown
    ELSE StripChars(SubUnderscoreRuns(SubUnsafeRuns(s, FALSE), FALSE), {"_"})

\* The copy of scrape_server.py, as it would be without the .strip("_").
server_sanitize_without_strip(s) ==
    IF Falsy(s) THEN Unknown
    ELSE SubUnderscoreRuns(SubUnsafeRuns(s, FALSE), FALSE)

\* The copy of scrape_server.py: the same two substitutions and the strip.
server_sanitize_for_filename(s) ==
    IF Falsy(s) THEN Unknown
    ELSE LET safe == SubUnsafeRuns(s, FALSE)
         IN StripChars(SubUnderscoreRuns(safe, FALSE), {"_"})

\* Bounds of the model: the length of the sanitized string and the calls
\* made on it.
MaxArgLen == 3
MaxCalls == 3

\* One character of each kind the substitutions tell apart: a lower-case
\* letter, an upper-case letter, a digit, the hyphen, the underscore, and
\* three characters outside the class (punctuation, a space, a non-ASCII
\* letter).
ArgChars == {"a", "Z", "7", "-", "_", ".", " ", "é"}

Args == StringsUpTo(ArgChars, MaxArgLen) \cup {None}

\* A call of one copy: its argument and what it returned.
Call(copy, s, out) == [copy |-> copy, arg |-> s, out |-> out]

\* scrape.py calls its copy (on the film title, on the salle name).
CallSanitize ==
    /\ Len(calls) < MaxCalls
    /\ calls' = Append(calls, Call("scrape", arg, sanitize_for_filename(arg)))
    /\ UNCHANGED <<arg, gwVars, crawlVars, parseVars>>

\* scrape_server.py calls its copy (on the film title).
CallServerSanitize ==
    /\ Len(calls) < MaxCalls
    /\ calls' = Append(calls, Call("server", arg, server_sanitize_for_filename(arg)))
    /\ UNCHANGED <<arg, gwVars, crawlVars, parseVars>>

SanitizeNext == CallSanitize \/ CallServerSanitize

\* No call of either copy is under observation.
SanitizeIdle ==
    /\ arg = None
    /\ calls = <<>>

-----------------------------------------------------------------------------
(* Artifact names and the gateway's glob patterns                          *)

DataBy == <<"_", "d", "a", "t", "a", "_", "b", "y", "_">>
ByAllocineJson == <<"_", "b", "y", "_", "a", "l", "l", "o", "c", "i", "n", "e",
                    ".", "j", "s", "o", "n">>
AllocinePrefix == <<"a", "l", "l", "o", "c", "i", "n", "e", "_">>
AllSeances == <<"_", "a", "l", "l", "_", "s", "e", "a", "n", "c", "e", "s", "_">>
RequestErrorTxt == <<"r", "e", "q", "u", "e", "s", "t", "_", "e", "r", "r", "o", "r",
                     ".", "t", "x", "t">>
DotHtml == <<".", "h", "t", "m", "l">>
DotJson == <<".", "j", "s", "o", "n">>
AllDotJson == <<"_", "a", "l", "l", ".", "j", "s", "o", "n">>

\* The date of the file names: the page URL's shwt_date, else today's date.
seance_date == <<"2", "0", "2", "5", "-", "1", "1", "-", "2", "9">>

film_json_name(safe_film, safe_salle) ==
    safe_film \o DataBy \o safe_salle \o ByAllocineJson

html_filename(safe_salle) ==
    AllocinePrefix \o safe_salle \o AllSeances \o seance_date \o DotHtml

page_json_filename(safe_salle) ==
    AllocinePrefix \o safe_salle \o AllSeances \o seance_date \o DotJson

all_json_filename(safe_salle) ==
    AllocinePrefix \o safe_salle \o AllSeances \o seance_date \o AllDotJson

\* fnmatch of a name against a pattern given as its literal segments, a "*"
\* standing between each two: the first segment is a prefix, the last one a
\* suffix of what is left, the others occur in order in between.
RECURSIVE GlobRest(_, _)
GlobRest(segs, s) ==
    IF Len(segs) = 1 THEN IsSuffix(segs[1], s)
    ELSE \E i \in 1..(Len(s) + 1) :
            /\ OccursAt(segs[1], s, i)
            /\ GlobRest(Tail(segs), SubSeq(s, i + Len(segs[1]), Len(s)))

GlobMatch(segs, s) ==
    /\ IsPrefix(segs[1], s)
    /\ GlobRest(Tail(segs), SubSeq(s, Len(segs[1]) + 1, Len(s)))

-----------------------------------------------------------------------------
(* The gateway (scrape_server.py) and the pipeline runs it launches        *)

\* Bound of the model: the clock seconds 1..MaxClock a run can start in.
\* `now` is the latest second a run has read.
MaxClock == 2

\* The requests the threaded server services, each on its own thread.
Requests == {1, 2}

\* Film titles and salle names of the requests; "!" sanitizes to "".
Titles == {<<"a">>, <<"a", "b">>, <<"b">>, <<"!">>}
UrlValues == {<<"u">>}
\* The requests of the model name no salle: the pipeline takes it from the page.
SalleValues == {}
\* The salle name the page yields when the request names none.
PageSalles == {<<"c">>}

\* A query parameter as it stands in the request line.
Params(values) ==
    {[kind |-> "absent", val |-> <<>>], [kind |-> "blank", val |-> <<>>]}
    \cup {[kind |-> "value", val |-> v] : v \in values}

\* The optional salle_name is left out or given.
Queries ==
    [url : Params(UrlValues), film : Params(Titles),
     salle_name : {p \in Params(SalleValues) : p.kind # "blank"}]

NoQuery ==
    [url |-> [kind |-> "absent", val |-> <<>>],
     film |-> [kind |-> "absent", val |-> <<>>],
     salle_name |-> [kind |-> "absent", val |-> <<>>]]

\* parse_qs(...).get(name, [None])[0]: parse_qs leaves blank values out, so an
\* absent and a blank parameter both read as None.
QsGet(p) == IF p.kind = "value" THEN p.val ELSE None

\* The guard of the 400 answer, as it would be with the film test forgotten.
MissingParamsUrlOnly(url, film) == Falsy(url)

\* `not url or not film`
MissingParams(url, film) == Falsy(url) \/ Falsy(film)

\* Response bodies.
ErrorBody(msg, search) ==
    [error |-> msg, search |-> search, name |-> None, film |-> None, run |-> 0]

FileBody(f) ==
    [error |-> "", search |-> None, name |-> f.name, film |-> f.film, run |-> f.run]

NoBody == ErrorBody("", None)

\* The latest-run pointer file: its content ts (0: the file does not exist)
\* and, as history, the request whose run wrote it. A request keeps, as
\* history too, whether its own run wrote the pointer (ptr_ok) and whose
\* pointer it read (ptr_by).
NoPointer == [ts |-> 0, by |-> 0]

IdleReq ==
    [gpc |-> "idle", query |-> NoQuery, url |-> None, film |-> None, salle_name |-> None,
     rpc |-> "none", run_dir |-> 0, safe_salle |-> None, fetched |-> "", returncode |-> -1,
     ptr_ok |-> FALSE, ts |-> 0, ptr_by |-> 0, status |-> 0, body |-> NoBody]

\* A file of a run directory; a directory lists its files oldest write first.
File(name, kind, r, film) == [name |-> name, kind |-> kind, run |-> r, film |-> film]

RECURSIVE WithoutName(_, _)
WithoutName(fs, name) ==
    IF fs = <<>> THEN <<>>
    ELSE IF Head(fs).name = name THEN WithoutName(Tail(fs), name)
    ELSE <<Head(fs)>> \o WithoutName(Tail(fs), name)

\* Path.write_text: creates or replaces the file, which becomes the newest.
WriteText(fs, f) == Append(WithoutName(fs, f.name), f)

\* datetime.now().strftime("%Y-%m-%dT%H-%M-%S"): the clock second.
RunTimestamp(clock) == clock

\* The pointer file left empty: its content '' names the data root itself.
EmptyPointer(r) == [ts |-> -1, by |-> r]

\* Path.write_text opens the file for writing, which creates or empties it,
\* then writes: it can fail before the file is opened, leaving it as it was,
\* or after, leaving it empty.
WriteOutcomes == {"written", "unchanged", "emptied"}

\* The pointer after a failed write, were the timestamp to land all the same.
PointerAlwaysWritten(old, ts, r, outcome) == [ts |-> ts, by |-> r]

\* latest_file.write_text(ts) inside try/except: a failed write is swallowed.
PointerAfterWrite(old, ts, r, outcome) ==
    CASE outcome = "written" -> [ts |-> ts, by |-> r]
      [] outcome = "unchanged" -> old
      [] outcome = "emptied" -> EmptyPointer(r)

\* What the gateway would read if the run handed its own directory back.
OwnRunPointer(r) == [ts |-> req[r].run_dir, by |-> r]

\* latest_file.read_text().strip(): the shared pointer, whoever wrote it.
ReadLatest(r) == latest

\* sys.exit(1) after the error file is written; as it would be if the run
\* ended normally there.
ExitAfterErrorZero == 1 - 1

ExitAfterError == 1

FetchOutcomes == {"ok", "network_error", "timeout", "http_error"}

----
\* do_GET up to subprocess.run: parse the query, answer 400 or launch the run.
Receive(r) ==
    /\ req[r].gpc = "idle"
    /\ \E q \in Queries :
         LET url == QsGet(q.url)
             film == QsGet(q.film)
             salle == QsGet(q.salle_name)
             got == [req[r] EXCEPT !.query = q, !.url = url, !.film = film,
                                   !.salle_name = salle]
         IN IF MissingParams(url, film)
            THEN req' = [req EXCEPT ![r] =
                    [got EXCEPT !.gpc = "done", !.status = 400,
                                !.body = ErrorBody("url and film parameters required", None)]]
            ELSE req' = [req EXCEPT ![r] = [got EXCEPT !.gpc = "running", !.rpc = "start"]]
    /\ UNCHANGED <<now, latest, dirs, files, crawlVars, parseVars, sanVars>>

\* make_run_dir: the directory of the clock second the run reads (the
\* current one or a later one, as time passes), then the pointer.
MakeRunDir(r) ==
    /\ req[r].rpc = "start"
    /\ \E clock \in now..MaxClock :
         LET ts == RunTimestamp(clock)
         IN /\ now' = clock
            /\ dirs' = dirs \cup {ts}
            /\ \E outcome \in WriteOutcomes :
                 /\ latest' = PointerAfterWrite(latest, ts, r, outcome)
                 /\ req' = [req EXCEPT ![r].run_dir = ts, ![r].rpc = "fetch",
                                       ![r].ptr_ok = (outcome = "written")]
    /\ UNCHANGED <<files, crawlVars, parseVars, sanVars>>

\* main, the initial fetch: on a RequestException the error file and exit 1;
\* else the salle name and the HTML snapshot.
Fetch(r) ==
    /\ req[r].rpc = "fetch"
    /\ \E outcome \in FetchOutcomes :
         LET d == req[r].run_dir
         IN IF outcome # "ok"
            THEN /\ files' = [files EXCEPT ![d] =
                        WriteText(@, File(RequestErrorTxt, "error", r, None))]
                 /\ req' = [req EXCEPT ![r].fetched = outcome, ![r].rpc = "exited",
                                       ![r].returncode = ExitAfterError]
            ELSE \E extracted \in PageSalles :
                   LET salle == IF Falsy(req[r].salle_name) THEN extracted
                                ELSE req[r].salle_name
                       safe == sanitize_for_filename(salle)
                   IN /\ files' = [files EXCEPT ![d] =
                             WriteText(@, File(html_filename(safe), "html", r, None))]
                      /\ req' = [req EXCEPT ![r].fetched = outcome, ![r].rpc = "film",
                                            ![r].safe_salle = safe]
    /\ UNCHANGED <<now, latest, dirs, crawlVars, parseVars, sanVars>>

\* main, `if args.film:`: the per-film JSON.
WriteFilm(r) ==
    /\ req[r].rpc = "film"
    /\ LET d == req[r].run_dir
           name == film_json_name(sanitize_for_filename(req[r].film), req[r].safe_salle)
       IN files' = IF Falsy(req[r].film) THEN files
                   ELSE [files EXCEPT ![d] = WriteText(@, File(name, "film", r, req[r].film))]
    /\ req' = [req EXCEPT ![r].rpc = "cards"]
    /\ UNCHANGED <<now, latest, dirs, crawlVars, parseVars, sanVars>>

\* main, from the film cards to the end: with at least one card collected the
\* list JSON and the page JSON are written; the run ends with exit code 0.
WritePage(r) ==
    /\ req[r].rpc = "cards"
    /\ LET d == req[r].run_dir
           s == req[r].safe_salle
       IN \E anyFilms \in BOOLEAN :
            files' = IF anyFilms
                     THEN [files EXCEPT ![d] =
                            WriteText(WriteText(@, File(all_json_filename(s), "all", r, None)),
                                      File(page_json_filename(s), "page", r, None))]
                     ELSE files
    /\ req' = [req EXCEPT ![r].rpc = "exited", ![r].returncode = 0]
    /\ UNCHANGED <<now, latest, dirs, crawlVars, parseVars, sanVars>>

\* The timeout as it would be were the child left running: the gateway
\* answers 500 and the run goes on.
TimeoutAbandons(r) ==
    /\ req[r].gpc = "running"
    /\ req[r].rpc \notin {"exited", "killed"}
    /\ req' = [req EXCEPT ![r].gpc = "done", ![r].status = 500,
                          ![r].body = ErrorBody("scrape timeout", None)]
    /\ UNCHANGED <<now, latest, dirs, files, crawlVars, parseVars, sanVars>>

\* subprocess.run raising TimeoutExpired: it kills the child and waits for it
\* before it raises; the gateway answers 500.
Timeout(r) ==
    /\ req[r].gpc = "running"
    /\ req[r].rpc \notin {"exited", "killed"}
    /\ req' = [req EXCEPT ![r].rpc = "killed", ![r].gpc = "done", ![r].status = 500,
                          ![r].body = ErrorBody("scrape timeout", None)]
    /\ UNCHANGED <<now, latest, dirs, files, crawlVars, parseVars, sanVars>>

\* do_GET after subprocess.run returned: the return code.
Await(r) ==
    /\ req[r].gpc = "running"
    /\ req[r].rpc = "exited"
    /\ req' = IF req[r].returncode # 0
              THEN [req EXCEPT ![r].gpc = "done", ![r].status = 500,
                               ![r].body = ErrorBody("scrape failed", None)]
              ELSE [req EXCEPT ![r].gpc = "readptr"]
    /\ UNCHANGED <<now, latest, dirs, files, crawlVars, parseVars, sanVars>>

\* run_dir.exists(): DATA_DIR / '' is the data root, which exists.
RunDirExists(ts) == ts = EmptyPointer(0).ts \/ ts \in dirs

\* The files of the directory the pointer names; the data root holds the run
\* directories and the pointer file, no file of a run.
DirFiles(ts) == IF ts = EmptyPointer(0).ts THEN <<>> ELSE files[ts]

\* do_GET: latest_run.txt and the directory it names.
ReadPointer(r) ==
    /\ req[r].gpc = "readptr"
    /\ LET ptr == ReadLatest(r)
       IN req' = IF ptr.ts = 0
                 THEN [req EXCEPT ![r].gpc = "done", ![r].status = 500,
                                  ![r].body = ErrorBody("latest_run.txt not found", None)]
                 ELSE IF ~RunDirExists(ptr.ts)
                 THEN [req EXCEPT ![r].gpc = "done", ![r].status = 500, ![r].ts = ptr.ts,
                                  ![r].ptr_by = ptr.by,
                                  ![r].body = ErrorBody("run dir not found", None)]
                 ELSE [req EXCEPT ![r].gpc = "lookup", ![r].ts = ptr.ts,
                                  ![r].ptr_by = ptr.by]
    /\ UNCHANGED <<now, latest, dirs, files, crawlVars, parseVars, sanVars>>

\* The two globs of the lookup, then the fallback; positions in the directory.
Candidates(fs, safe) ==
    LET direct == {i \in 1..Len(fs) :
                     \/ GlobMatch(<<safe, DataBy, ByAllocineJson>>, fs[i].name)
                     \/ GlobMatch(<<safe \o DataBy, ByAllocineJson>>, fs[i].name)}
    IN IF direct # {} THEN direct
       ELSE {i \in 1..Len(fs) :
               /\ GlobMatch(<<<<>>, DataBy, ByAllocineJson>>, fs[i].name)
               /\ Contains(fs[i].name, safe)}

\* candidates.sort(key=mtime); candidates[-1]
Newest(fs, cands) == fs[CHOOSE i \in cands : \A j \in cands : j <= i]

\* do_GET: find the film file in the directory read from the pointer.
Lookup(r) ==
    /\ req[r].gpc = "lookup"
    /\ LET safe == server_sanitize_for_filename(req[r].film)
           fs == DirFiles(req[r].ts)
           cands == Candidates(fs, safe)
       IN req' = IF cands = {}
                 THEN [req EXCEPT ![r].gpc = "done", ![r].status = 404,
                                  ![r].body = ErrorBody("film file not found", safe)]
                 ELSE [req EXCEPT ![r].gpc = "done", ![r].status = 200,
                                  ![r].body = FileBody(Newest(fs, cands))]
    /\ UNCHANGED <<now, latest, dirs, files, crawlVars, parseVars, sanVars>>

GatewayInit ==
    /\ now = 1
    /\ latest = NoPointer
    /\ dirs = {}
    /\ files = [d \in 1..MaxClock |-> <<>>]
    /\ req = [r \in Requests |-> IdleReq]

GatewayNext ==
    \E r \in Requests :
         \/ Receive(r)
         \/ MakeRunDir(r)
         \/ Fetch(r)
         \/ WriteFilm(r)
         \/ WritePage(r)
         \/ Timeout(r)
         \/ Await(r)
         \/ ReadPointer(r)
         \/ Lookup(r)

-----------------------------------------------------------------------------
(* The pagination crawl of main (scrape.py)                                *)

\* Bounds of the model: the links of the pagination container, and the
\* paginated fetches that may fail in one run.
MaxLinks == 2
MaxFailedPages == 2

\* `limit = min(max_page, 30)`
PageLimit == 30

\* The page numbers the links' hrefs name; -1 is an href without page=N.
LinkPages == {-1, 0, 1, 2, 3, 5, 30, 31, 32}

NoPagination == [present |-> FALSE, links |-> <<>>]

Paginations ==
    {NoPagination}
    \cup {[present |-> TRUE, links |-> l] : l \in UNION {[1..k -> LinkPages] : k \in 0..MaxLinks}}

\* The entity cards of page p of the listing: p % 3 of them.
CardsOf(p) == [i \in 1..(p % 3) |-> [page |-> p, card |-> i]]

\* The numbers of the links matching [?&]page=(\d+), in link order.
RECURSIVE PagesOf(_)
PagesOf(links) ==
    IF links = <<>> THEN <<>>
    ELSE IF Head(links) >= 0 THEN <<Head(links)>> \o PagesOf(Tail(links))
    ELSE PagesOf(Tail(links))

RECURSIVE MaxOf(_)
MaxOf(ns) ==
    IF Len(ns) = 1 THEN ns[1]
    ELSE LET m == MaxOf(Tail(ns)) IN IF Head(ns) > m THEN Head(ns) ELSE m

\* max_page: 1 unless the container exists and a link names a page.
DetectMaxPage(pg) ==
    IF pg.present /\ PagesOf(pg.links) # <<>> THEN MaxOf(PagesOf(pg.links)) ELSE 1

\* The limit, had the cap of 30 been left out.
CrawlLimitUncapped(m) == m

\* min(max_page, 30)
CrawlLimit(m) == IF m < PageLimit THEN m ELSE PageLimit

\* The page after a failed one, had the handler left the loop (break).
PageAfterFailureBreak(p, limit) == limit + 1

\* `continue`: a failed page is skipped and the loop goes on.
PageAfterFailure(p, limit) == p + 1

\* Lines 449-462: the pagination container, max_page, the loop or not.
DetectPagination ==
    /\ cpc = "detect"
    /\ max_page' = DetectMaxPage(pagination)
    /\ pagination' = [pagination EXCEPT !.links = <<>>]
    /\ IF max_page' > 1
       THEN cpc' = "loop" /\ page' = 2
       ELSE cpc' = "crawled" /\ page' = page
    /\ UNCHANGED <<first_cards, films, trace, failed, gwVars, parseVars, sanVars>>

\* One iteration of the loop whose fetch succeeds: the delay, the fetch, the
\* page's cards appended.
CrawlPageOk ==
    /\ cpc = "loop"
    /\ page <= CrawlLimit(max_page)
    /\ trace' = trace \o <<[op |-> "sleep", page |-> page], [op |-> "get", page |-> page]>>
    /\ films' = films \o CardsOf(page)
    /\ page' = page + 1
    /\ UNCHANGED <<cpc, pagination, first_cards, max_page, failed, gwVars, parseVars, sanVars>>

\* One iteration whose fetch raises a RequestException: logged, skipped.
CrawlPageFail ==
    /\ cpc = "loop"
    /\ page <= CrawlLimit(max_page)
    /\ Cardinality(failed) < MaxFailedPages
    /\ trace' = trace \o <<[op |-> "sleep", page |-> page], [op |-> "get", page |-> page]>>
    /\ failed' = failed \cup {page}
    /\ page' = PageAfterFailure(page, CrawlLimit(max_page))
    /\ UNCHANGED <<cpc, pagination, first_cards, max_page, films, gwVars, parseVars, sanVars>>

\* The range is exhausted: main goes on after the loop.
CrawlEnd ==
    /\ cpc = "loop"
    /\ page > CrawlLimit(max_page)
    /\ cpc' = "crawled"
    /\ UNCHANGED <<pagination, first_cards, max_page, page, films, trace, failed,
                   gwVars, parseVars, sanVars>>

\* Lines 479-532: the JSON files when there are films; main returns.
FinishRun ==
    /\ cpc = "crawled"
    /\ cpc' = "exit0"
    /\ UNCHANGED <<pagination, first_cards, max_page, page, films, trace, failed,
                   gwVars, parseVars, sanVars>>

\* After lines 438-447: the cards of page 1 are in films (none, or CardsOf(1)).
CrawlInit ==
    /\ cpc = "detect"
    /\ pagination \in Paginations
    /\ first_cards \in {<<>>, CardsOf(1)}
    /\ films = first_cards
    /\ max_page = 1
    /\ page = 0
    /\ trace = <<>>
    /\ failed = {}

CrawlNext == DetectPagination \/ CrawlPageOk \/ CrawlPageFail \/ CrawlEnd \/ FinishRun

-----------------------------------------------------------------------------
(* parse_cinema_showtimes (scrape.py)                                      *)

UpperSeq == <<"A", "B", "C", "D", "E", "F", "G", "H", "I", "J", "K", "L", "M",
              "N", "O", "P", "Q", "R", "S", "T", "U", "V", "W", "X", "Y", "Z">>
LowerSeq == <<"a", "b", "c", "d", "e", "f", "g", "h", "i", "j", "k", "l", "m",
              "n", "o", "p", "q", "r", "s", "t", "u", "v", "w", "x", "y", "z">>

\* str.lower, character by character.
LowerChar(c) ==
    IF c \in Upper THEN LowerSeq[CHOOSE i \in 1..26 : UpperSeq[i] = c] ELSE c

ToLower(s) == [i \in 1..Len(s) |-> LowerChar(s[i])]

\* \w of the regular expressions.
WordChar(c) == c \in Digits \cup Lower \cup Upper \cup {"_"}

Whitespace == {" "}

\* re.sub(r"\W+", " ", s): each maximal run of non-word characters becomes
\* one space.
RECURSIVE SubNonWordRuns(_, _)
SubNonWordRuns(s, inRun) ==
    IF s = <<>> THEN <<>>
    ELSE IF WordChar(Head(s)) THEN <<Head(s)>> \o SubNonWordRuns(Tail(s), FALSE)
    ELSE IF inRun THEN SubNonWordRuns(Tail(s), TRUE)
    ELSE <<" ">> \o SubNonWordRuns(Tail(s), TRUE)

normalize_text(s) ==
    IF Falsy(s) THEN <<>>
    ELSE ToLower(StripChars(SubNonWordRuns(s, FALSE), Whitespace))

\* get_text(" ", strip=True) of an element holding one text node.
GetText(raw) == StripChars(raw, Whitespace)

\* get_text(" ", strip=True) of a parent: its non-empty stripped text nodes,
\* here the text before the anchor and the anchor's own, joined by a space.
ParentText(a) ==
    LET b == GetText(a.before)
        t == GetText(a.text)
    IN IF b = <<>> THEN t ELSE IF t = <<>> THEN b ELSE b \o <<" ">> \o t

FilmSlash == <<"/", "f", "i", "l", "m">>
FicheFilm == <<"f", "i", "c", "h", "e", "f", "i", "l", "m", "_", "g", "e", "n", "_",
               "c", "f", "i", "l", "m">>
FilmDash == <<"f", "i", "l", "m", "-">>

\* re.search(r"/film(/|$)|fichefilm_gen_cfilm|film-", href)
HrefIsFilm(href) ==
    \/ Contains(href, FilmSlash \o <<"/">>)
    \/ IsSuffix(FilmSlash, href)
    \/ Contains(href, FicheFilm)
    \/ Contains(href, FilmDash)

\* The first loop over the anchors: the visible text, else the title attribute.
DirectMatch(target, a) ==
    \/ target # <<>> /\ Contains(normalize_text(GetText(a.text)), target)
    \/ a.title # None /\ target # <<>> /\ Contains(normalize_text(a.title), target)

\* The second loop, as it would be if every film link were taken.
FallbackMatchAnyFilmLink(target, a) == HrefIsFilm(a.href)

\* The second loop: a film link whose parent's text holds the target.
FallbackMatch(target, a) ==
    /\ HrefIsFilm(a.href)
    /\ target # <<>>
    /\ Contains(normalize_text(ParentText(a)), target)

\* The candidates, as positions in document order.
CandidateAnchors(target, as) ==
    LET direct == {i \in 1..Len(as) : DirectMatch(target, as[i])}
    IN IF direct # {} THEN direct
       ELSE {i \in 1..Len(as) : FallbackMatch(target, as[i])}

IsDigit(c) == c \in Digits

DigitSeq == <<"0", "1", "2", "3", "4", "5", "6", "7", "8", "9">>

DigitVal(c) == (CHOOSE i \in 1..10 : DigitSeq[i] = c) - 1

\* int() of one or two digits.
IntOf(g) == IF Len(g) = 1 THEN DigitVal(g[1]) ELSE 10 * DigitVal(g[1]) + DigitVal(g[2])

\* f"{hh:02d}" for 0 <= hh < 100.
Fmt02(n) == <<DigitSeq[(n \div 10) + 1], DigitSeq[(n % 10) + 1]>>

HourSep == {"h", "H", ":"}

At(s, i) == IF i >= 1 /\ i <= Len(s) THEN s[i] ELSE ""

\* (\d{1,2})[hH:](\d{2}) at position i with an hour of n digits.
HourMinAt(s, i, n) ==
    /\ \A k \in 0..(n - 1) : IsDigit(At(s, i + k))
    /\ At(s, i + n) \in HourSep
    /\ IsDigit(At(s, i + n + 1))
    /\ IsDigit(At(s, i + n + 2))

\* (\d{1,2})[hH]\b at position i with an hour of n digits: after the h comes
\* the end of the text or a non-word character.
HourOnlyAt(s, i, n) ==
    /\ \A k \in 0..(n - 1) : IsDigit(At(s, i + k))
    /\ At(s, i + n) \in {"h", "H"}
    /\ (i + n = Len(s) \/ ~WordChar(At(s, i + n + 1)))

\* The time value of a span whose visible text is not empty: re.search takes
\* the leftmost match, the two-digit hour first.
TimeOfText(t) ==
    LET hm == {i \in 1..Len(t) : HourMinAt(t, i, 2) \/ HourMinAt(t, i, 1)}
        ho == {i \in 1..Len(t) : HourOnlyAt(t, i, 2) \/ HourOnlyAt(t, i, 1)}
    IN IF hm # {}
       THEN LET i == CHOOSE x \in hm : \A y \in hm : x <= y
                n == IF HourMinAt(t, i, 2) THEN 2 ELSE 1
            IN Fmt02(IntOf(SubSeq(t, i, i + n - 1))) \o <<":">>
               \o SubSeq(t, i + n + 1, i + n + 2)
       ELSE IF ho # {}
       THEN LET i == CHOOSE x \in ho : \A y \in ho : x <= y
                n == IF HourOnlyAt(t, i, 2) THEN 2 ELSE 1
            IN Fmt02(IntOf(SubSeq(t, i, i + n - 1))) \o <<":", "0", "0">>
       ELSE t

\* time_val of one span (lines 281-300).
TimeVal(sp) ==
    LET time_text == GetText(sp.text)
    IN IF time_text # <<>> THEN TimeOfText(time_text)
       ELSE IF ~Falsy(sp.time_attr) THEN sp.time_attr
       ELSE GetText(sp.text)

\* date_val of one span (lines 301-315): the data-showtime-date found on the
\* way up to the container, else the shwt_date of the page URL's fragment.
DateVal(sp, urlDate) ==
    IF Falsy(sp.date_attr) /\ urlDate # None THEN urlDate ELSE sp.date_attr

Slot(sp, urlDate) ==
    [date |-> DateVal(sp, urlDate), time |-> TimeVal(sp), text |-> GetText(sp.text)]

\* str() inside the f-string of the key.
StrOf(v) == IF v = None THEN <<"N", "o", "n", "e">> ELSE v

\* key = f"{st.get('date')}_{st.get('time')}"
SlotKey(st) == StrOf(st.date) \o <<"_">> \o StrOf(st.time)

\* The dedup loop (lines 320-326) over the slots from position i on.
RECURSIVE DedupFrom(_, _, _, _)
DedupFrom(sts, i, uniq, keys) ==
    IF i > Len(sts) THEN [unique |-> uniq, seen |-> keys]
    ELSE IF SlotKey(sts[i]) \notin keys
    THEN DedupFrom(sts, i + 1, Append(uniq, sts[i]), keys \cup {SlotKey(sts[i])})
    ELSE DedupFrom(sts, i + 1, uniq, keys)

----
\* Lines 229-251: the candidate anchors; without any, the not-found result.
FindCandidates ==
    /\ ppc = "start"
    /\ IF CandidateAnchors(normalize_text(film_title), anchors) = {}
       THEN ppc' = "returned" /\ result' = "not_found"
       ELSE ppc' = "spans" /\ result' = result
    /\ UNCHANGED <<film_title, anchors, url_date, spans, showtimes, unique, seen,
                   gwVars, crawlVars, sanVars>>

\* One iteration of the loop over the time-bearing elements (lines 279-317).
ParseSpan ==
    /\ ppc = "spans"
    /\ Len(showtimes) < Len(spans)
    /\ showtimes' = Append(showtimes, Slot(spans[Len(showtimes) + 1], url_date))
    /\ UNCHANGED <<ppc, film_title, anchors, url_date, spans, unique, seen, result,
                   gwVars, crawlVars, sanVars>>

\* Lines 319-326: the slots deduplicated by their key.
DedupSlots ==
    /\ ppc = "spans"
    /\ Len(showtimes) = Len(spans)
    /\ LET d == DedupFrom(showtimes, 1, <<>>, {})
       IN unique' = d.unique /\ seen' = d.seen
    /\ ppc' = "dedup"
    /\ UNCHANGED <<film_title, anchors, url_date, spans, showtimes, result,
                   gwVars, crawlVars, sanVars>>

\* Line 328: the found result.
ReturnFound ==
    /\ ppc = "dedup"
    /\ ppc' = "returned"
    /\ result' = "found"
    /\ UNCHANGED <<film_title, anchors, url_date, spans, showtimes, unique, seen,
                   gwVars, crawlVars, sanVars>>

\* The crawl and the showtime parser at rest.
CrawlIdle ==
    /\ cpc = "idle"
    /\ pagination = NoPagination
    /\ first_cards = <<>>
    /\ max_page = 0
    /\ page = 0
    /\ films = <<>>
    /\ trace = <<>>
    /\ failed = {}

ParseIdle ==
    /\ ppc = "idle"
    /\ film_title = <<>>
    /\ anchors = <<>>
    /\ url_date = None
    /\ spans = <<>>
    /\ showtimes = <<>>
    /\ unique = <<>>
    /\ seen = {}
    /\ result = "none"

Init == GatewayInit /\ CrawlIdle /\ ParseIdle /\ SanitizeIdle

Next == GatewayNext

Spec == Init /\ [][Next]_vars

\* A request and its run are in progress from the launch to the response.
InProgress(r) == req[r].gpc \notin {"idle", "done"}

\* The gateway receiving a request while no other request is in progress.
ReceiveAlone(r) ==
    /\ \A o \in Requests : ~InProgress(o)
    /\ Receive(r)

\* The gateway serving its requests one after the other: each run is the
\* only one in progress from its launch to its response.
SoloNext ==
    \E r \in Requests :
         \/ ReceiveAlone(r)
         \/ MakeRunDir(r)
         \/ Fetch(r)
         \/ WriteFilm(r)
         \/ WritePage(r)
         \/ Timeout(r)
         \/ Await(r)
         \/ ReadPointer(r)
         \/ Lookup(r)

SpecSolo == Init /\ [][SoloNext]_vars

InitCrawl == GatewayInit /\ CrawlInit /\ ParseIdle /\ SanitizeIdle

SpecCrawl == InitCrawl /\ [][CrawlNext]_vars

\* Bounds of the model: the anchors of a page, the characters of a span's
\* text, the time-bearing elements of a container.
MaxAnchors == 2
MaxTimeLen == 5
MaxSpans == 3

\* The anchors (with an href) of the pages: visible text, title attribute,
\* href, and the text that precedes the anchor inside its parent.
AnchorTexts == {<<>>, <<"A", "-", "b">>, <<" ", "b">>}
AnchorTitles == {None, <<"a", " ", "B">>}
Hrefs == {<<"/", "f", "i", "l", "m", "/", "1">>, <<"/", "x">>}
BeforeTexts == {<<>>, <<"A", "!">>}
AnchorSet == [text : AnchorTexts, title : AnchorTitles, href : Hrefs, before : BeforeTexts]

\* The requested titles; "!" normalizes to "", "c" is on no page.
MatchTitles == {<<"a", " ", "b">>, <<"B">>, <<"!">>, <<"c">>}

\* A page on which the title <<"B">> is found through the first anchor.
FoundTitle == <<"B">>
FoundAnchors == <<[text |-> <<"b">>, title |-> None, href |-> <<"/", "x">>, before |-> <<>>]>>

Date1 == <<"2", "0", "2", "5", "-", "1", "1", "-", "2", "9">>
Date2 == <<"2", "0", "2", "5", "-", "1", "1", "-", "3", "0">>

\* The time-bearing elements: visible text, data-showtime-time, and the
\* data-showtime-date met on the way up to the container.
TimeChars == {"1", "h", ":", " "}
TimeAttrs == {None, <<>>, <<"2", "1", ":", "1", "5">>}
WideSpans ==
    [text : StringsUpTo(TimeChars, MaxTimeLen), time_attr : TimeAttrs, date_attr : {None}]

Span(text, date) == [text |-> text, time_attr |-> None, date_attr |-> date]

SampleSpans ==
    {Span(<<"2", "0", "h", "3", "0">>, Date1),
     Span(<<"2", "0", ":", "3", "0">>, Date1),
     Span(<<"2", "0", "h">>, Date1),
     Span(<<"x", "_", "y">>, Date1),
     Span(<<"y">>, Date1 \o <<"_", "x">>),
     Span(<<"2", "0", "h", "3", "0">>, None)}

ParseRest ==
    /\ ppc = "start"
    /\ showtimes = <<>>
    /\ unique = <<>>
    /\ seen = {}
    /\ result = "none"

\* The matcher on every page of up to MaxAnchors anchors, no time-bearing
\* element in the container.
InitMatch ==
    /\ GatewayInit /\ CrawlIdle /\ ParseRest /\ SanitizeIdle
    /\ film_title \in MatchTitles
    /\ anchors \in UNION {[1..k -> AnchorSet] : k \in 0..MaxAnchors}
    /\ url_date = None
    /\ spans = <<>>

MatchNext == FindCandidates \/ DedupSlots \/ ReturnFound

SpecMatch == InitMatch /\ [][MatchNext]_vars

\* One time-bearing element of any text over TimeChars.
InitTimes ==
    /\ GatewayInit /\ CrawlIdle /\ ParseRest /\ SanitizeIdle
    /\ film_title = FoundTitle
    /\ anchors = FoundAnchors
    /\ url_date \in {None, Date2}
    /\ spans \in [1..1 -> WideSpans]

\* Up to MaxSpans time-bearing elements out of SampleSpans.
InitDedup ==
    /\ GatewayInit /\ CrawlIdle /\ ParseRest /\ SanitizeIdle
    /\ film_title = FoundTitle
    /\ anchors = FoundAnchors
    /\ url_date \in {None, Date2}
    /\ spans \in UNION {[1..k -> SampleSpans] : k \in 0..MaxSpans}

\* The two copies of sanitize_for_filename called on one string of up to
\* MaxArgLen characters, or on None.
InitSanitize ==
    /\ GatewayInit /\ CrawlIdle /\ ParseIdle
    /\ arg \in Args
    /\ calls = <<>>

SpecSanitize == InitSanitize /\ [][SanitizeNext]_vars

ShowtimesNext == FindCandidates \/ ParseSpan \/ DedupSlots \/ ReturnFound

SpecTimes == InitTimes /\ [][ShowtimesNext]_vars

SpecDedup == InitDedup /\ [][ShowtimesNext]_vars

-----------------------------------------------------------------------------
(* Properties of the gateway and its runs                                  *)

ParamMissing(p) == p.kind \in {"absent", "blank"}

\* The files run r has left, as <<directory, position>>.
FilesOfRun(r) ==
    UNION {{<<d, i>> : i \in {j \in 1..Len(files[d]) : files[d][j].run = r}} :
             d \in 1..MaxClock}

\* C1: a request whose url or film parameter is absent or empty is answered
\* 400 with the body {"error": "url and film parameters required"}, and no
\* run is launched for it: it has no run directory, wrote no file and never
\* wrote the latest-run pointer.
C1_MissingParamRejected ==
    \A r \in Requests :
        (req[r].gpc # "idle" /\ (ParamMissing(req[r].query.url) \/ ParamMissing(req[r].query.film)))
        => /\ req[r].gpc = "done"
           /\ req[r].status = 400
           /\ req[r].body = ErrorBody("url and film parameters required", None)
           /\ req[r].rpc = "none"
           /\ req[r].run_dir = 0
           /\ FilesOfRun(r) = {}
           /\ latest.by # r

\* A request with a url and no film has been answered 400 while the other
\* request's run went on.
C1_Witness ==
    \E r \in Requests, o \in Requests :
        /\ req[r].query.url.kind = "value"
        /\ ParamMissing(req[r].query.film)
        /\ req[r].status = 400
        /\ o # r
        /\ req[o].run_dir # 0

\* C2: the directory a request is answered from is the one the shared
\* latest-run pointer names when the request reads it, whichever run wrote
\* it; the request's own run directory plays no part.
C2_AnsweredFromSharedPointer ==
    [][\A r \in Requests :
          (req[r].gpc = "readptr" /\ req'[r].gpc = "lookup")
          => (req'[r].ts = latest.ts /\ req'[r].ptr_by = latest.by)]_vars

\* The race: request r's run succeeded and wrote the pointer itself, yet r
\* read the pointer the other request's run wrote in the meantime, and was
\* answered 200 with a file of the other run's directory.
C2_Witness ==
    \E r \in Requests, o \in Requests :
        /\ o # r
        /\ req[r].returncode = 0
        /\ req[r].ptr_ok
        /\ req[r].ptr_by = o
        /\ req[r].ts = req[o].run_dir
        /\ req[r].ts # req[r].run_dir
        /\ req[r].status = 200
        /\ req[r].body.run = o

\* C3: two distinct runs never share a run directory, and no directory
\* holds files of more than one run.
C3_RunDirsDisjoint ==
    /\ \A r \in Requests, o \in Requests :
         (r # o /\ req[r].run_dir # 0 /\ req[o].run_dir # 0)
         => req[r].run_dir # req[o].run_dir
    /\ \A d \in 1..MaxClock : \A i, j \in 1..Len(files[d]) :
         files[d][i].run = files[d][j].run

\* C4: a 200 answer carries the per-film artifact written for the film the
\* request names, never the artifact of another film (so a directory without
\* an artifact for that film makes the answer 404).
C4_OnlyRequestedFilm ==
    \A r \in Requests :
        req[r].status = 200 => req[r].body.film = req[r].film

HasFile(d, name) == \E i \in 1..Len(files[d]) : files[d][i].name = name

\* C11: a run whose initial fetch succeeded and that ran to its end has left
\* in its run directory both the HTML snapshot and the page JSON of the same
\* stem, whatever the number of film cards of the page, zero included.
C11_SnapshotAndPageJson ==
    \A r \in Requests :
        (req[r].rpc = "exited" /\ req[r].fetched = "ok")
        => /\ HasFile(req[r].run_dir, html_filename(req[r].safe_salle))
           /\ HasFile(req[r].run_dir, page_json_filename(req[r].safe_salle))

\* The step in which make_run_dir returns to run r with its pointer write
\* failed: r has its new directory and goes on to the fetch, nothing else of
\* it changed.
CreatedDespiteFailure(r) ==
    /\ req[r].rpc = "start"
    /\ req'[r].rpc = "fetch"
    /\ ~req'[r].ptr_ok

RunGoesOn(r) ==
    /\ req'[r].run_dir \in dirs'
    /\ req'[r] = [req[r] EXCEPT !.run_dir = req'[r].run_dir, !.rpc = "fetch"]

\* A run whose pointer write failed fetches and writes its artifacts like
\* any other: once it has ended on a successful fetch its exit code is 0 and
\* its directory holds the snapshot and the film file.
FailedWriteRunsOn ==
    \A r \in Requests :
        (req[r].run_dir # 0 /\ ~req[r].ptr_ok)
        => ((req[r].rpc = "exited" /\ req[r].fetched = "ok")
            => /\ req[r].returncode = 0
               /\ HasFile(req[r].run_dir, html_filename(req[r].safe_salle))
               /\ HasFile(req[r].run_dir,
                          film_json_name(sanitize_for_filename(req[r].film),
                                         req[r].safe_salle)))

\* C12 as stated: a failed pointer write is swallowed, make_run_dir returns
\* the new directory, the run goes on as after a successful write, and the
\* pointer keeps its previous value.
C12_PointerKeptOnFailure ==
    /\ [][\A r \in Requests :
            CreatedDespiteFailure(r) => (RunGoesOn(r) /\ latest' = latest)]_vars
    /\ []FailedWriteRunsOn

\* C12 amended: as above, but the pointer file either keeps its previous
\* value or is left empty.
C12_FailureSwallowed ==
    /\ [][\A r \in Requests :
            CreatedDespiteFailure(r)
            => (RunGoesOn(r) /\ latest' \in {latest, EmptyPointer(r)})]_vars
    /\ []FailedWriteRunsOn

\* Run r's pointer write failed and the pointer still names the other run's
\* directory; r fetched, wrote its artifacts into its own directory and
\* ended with exit code 0.
C12_Witness ==
    \E r \in Requests, o \in Requests :
        /\ o # r
        /\ req[r].run_dir # 0 /\ ~req[r].ptr_ok
        /\ req[r].rpc = "exited" /\ req[r].returncode = 0
        /\ HasFile(req[r].run_dir, html_filename(req[r].safe_salle))
        /\ \E i \in 1..Len(files[req[r].run_dir]) : files[req[r].run_dir][i].run = r
        /\ latest = [ts |-> req[o].run_dir, by |-> o]
        /\ req[o].run_dir # req[r].run_dir

\* The gateway answered request r 500 'scrape timeout'.
TimedOut(r) ==
    req[r].status = 500 /\ req[r].body = ErrorBody("scrape timeout", None)

\* A step of run r: the run directory and the pointer, or one of its writes.
RunStep(r) == MakeRunDir(r) \/ Fetch(r) \/ WriteFilm(r) \/ WritePage(r)

\* The files run r has written, by directory and name.
NamesOfRun(r) == {<<e[1], files[e[1]][e[2]].name>> : e \in FilesOfRun(r)}

\* C14 as stated: a request whose run exceeded the bound is answered 500
\* 'scrape timeout' and its run is left running: after the answer the run
\* can still take its next step and write into its run directory.
C14_RunGoesOnAfterTimeout ==
    \A r \in Requests :
        TimedOut(r) => (req[r].gpc = "done" /\ ENABLED RunStep(r))

\* C14 amended: a request whose run exceeded the bound is answered 500
\* 'scrape timeout' once its run has been killed: after the answer the run
\* writes no file and no pointer any more.
C14_RunKilledOnTimeout ==
    /\ [](\A r \in Requests :
            TimedOut(r) => (req[r].gpc = "done" /\ req[r].rpc = "killed"))
    /\ [][\A r \in Requests :
            TimedOut(r) => /\ NamesOfRun(r)' \subseteq NamesOfRun(r)
                           /\ (latest' # latest => latest'.by # r)
                           /\ req'[r] = req[r]]_vars

\* Run r was killed after it had written its HTML snapshot and before its
\* film file; its request was answered 500 'scrape timeout', and the other
\* request's run has written since.
C14_Witness ==
    \E r \in Requests, o \in Requests :
        /\ o # r
        /\ TimedOut(r)
        /\ req[r].rpc = "killed"
        /\ req[r].fetched = "ok"
        /\ \E e \in FilesOfRun(r) : files[e[1]][e[2]].kind = "html"
        /\ \A e \in FilesOfRun(r) : files[e[1]][e[2]].kind # "film"
        /\ req[o].rpc = "exited" /\ req[o].returncode = 0

\* C15: a request with url and film whose run was the only one in progress
\* from its launch to its response, and exited with code 0 within the bound,
\* is answered 200 with the per-film JSON this very run wrote for the
\* requested film.
C15_SoloRunAnsweredWithOwnFile ==
    \A r \in Requests :
        (req[r].gpc = "done" /\ req[r].rpc = "exited" /\ req[r].returncode = 0)
        => /\ req[r].status = 200
           /\ req[r].body.run = r
           /\ req[r].body.film = req[r].film
           /\ req[r].body.name =
                film_json_name(sanitize_for_filename(req[r].film), req[r].safe_salle)

\* The same for the runs whose pointer write succeeded.
SoloRunWithPointerAnswered ==
    \A r \in Requests :
        (req[r].gpc = "done" /\ req[r].rpc = "exited" /\ req[r].returncode = 0
         /\ req[r].ptr_ok)
        => /\ req[r].status = 200
           /\ req[r].body.run = r
           /\ req[r].body.film = req[r].film

-----------------------------------------------------------------------------
(* Properties of the pagination crawl                                      *)

Min(a, b) == IF a < b THEN a ELSE b

\* The delay and the fetch of each page first..last, in ascending order.
RECURSIVE FetchesOf(_, _)
FetchesOf(first, last) ==
    IF first > last THEN <<>>
    ELSE <<[op |-> "sleep", page |-> first], [op |-> "get", page |-> first]>>
         \o FetchesOf(first + 1, last)

\* The cards of the pages first..last that did not fail, in page order.
RECURSIVE CardsOfFetched(_, _, _)
CardsOfFetched(first, last, bad) ==
    IF first > last THEN <<>>
    ELSE (IF first \in bad THEN <<>> ELSE CardsOf(first))
         \o CardsOfFetched(first + 1, last, bad)

CrawlOver == cpc \in {"crawled", "exit0"}

\* C5: with maxPage = M the crawl issues exactly the fetches of the pages
\* 2..min(M, 30), once each, in ascending order, each right after one delay
\* step; none when M = 1 or when there is no pagination container; while it
\* runs it has issued the fetches of the pages before the current one.
C5_ExactFetches ==
    /\ cpc = "loop" => trace = FetchesOf(2, page - 1)
    /\ CrawlOver => trace = FetchesOf(2, Min(max_page, 30))
    /\ (CrawlOver /\ (max_page = 1 \/ ~pagination.present)) => trace = <<>>
    /\ (CrawlOver /\ max_page = 5) => Len(SelectSeq(trace, LAMBDA e : e.op = "get")) = 4

\* The crawl of a listing whose links name page 32 is over: it fetched the
\* pages 2..30 and stopped.
C5_Witness ==
    /\ CrawlOver
    /\ max_page = 32
    /\ Len(trace) = 58
    /\ trace[58] = [op |-> "get", page |-> 30]

\* C6: whatever pages fail, the crawl reaches its last page and the run
\* completes; the film list is at every moment the cards of page 1 followed
\* by the cards of the pages fetched so far that did not fail, in page order.
C6_FailedPagesSkipped ==
    /\ cpc = "loop" =>
         /\ films = first_cards \o CardsOfFetched(2, page - 1, failed)
         /\ page <= Min(max_page, 30) + 1
    /\ CrawlOver =>
         /\ films = first_cards \o CardsOfFetched(2, Min(max_page, 30), failed)
         /\ max_page > 1 => page = Min(max_page, 30) + 1
    /\ (cpc = "crawled") => ENABLED FinishRun

\* A run completed although the pages 2 and 4 of 5 failed: the cards of
\* page 1 and of the pages 3 and 5 are what it collected.
C6_Witness ==
    /\ cpc = "exit0"
    /\ max_page = 5
    /\ failed = {2, 4}
    /\ first_cards # <<>>
    /\ films = first_cards \o CardsOf(3) \o CardsOf(5)

-----------------------------------------------------------------------------
(* Properties of parse_cinema_showtimes                                    *)

\* No anchor's normalized visible text or normalized title attribute holds
\* the normalized title.
NoAnchorHoldsTitle ==
    \A i \in 1..Len(anchors) :
        /\ ~Contains(normalize_text(GetText(anchors[i].text)), normalize_text(film_title))
        /\ anchors[i].title # None
           => ~Contains(normalize_text(anchors[i].title), normalize_text(film_title))

\* No film link's parent holds the normalized title in its normalized text.
NoFilmLinkParentHoldsTitle ==
    \A i \in 1..Len(anchors) :
        ~(/\ HrefIsFilm(anchors[i].href)
          /\ Contains(normalize_text(ParentText(anchors[i])), normalize_text(film_title)))

\* C7 as stated: if no anchor's normalized text or title attribute holds the
\* normalized title, parse_cinema_showtimes returns found = false.
C7_NotFoundWithoutAnchorMatch ==
    (ppc = "returned" /\ NoAnchorHoldsTitle) => result = "not_found"

\* C7 amended: if moreover no film link has a parent whose normalized text
\* holds the normalized title, parse_cinema_showtimes returns found = false.
C7_NotFoundWithoutAnyMatch ==
    (ppc = "returned" /\ NoAnchorHoldsTitle /\ NoFilmLinkParentHoldsTitle)
    => result = "not_found"

\* A page with a film link, none of whose anchors or parents holds the
\* requested title "a b": the matcher returned found = false.
C7_Witness ==
    /\ ppc = "returned"
    /\ result = "not_found"
    /\ normalize_text(film_title) = <<"a", " ", "b">>
    /\ \E i \in 1..Len(anchors) :
         HrefIsFilm(anchors[i].href) /\ GetText(anchors[i].text) # <<>>
    /\ NoAnchorHoldsTitle
    /\ NoFilmLinkParentHoldsTitle

\* C8: every slot of a time-bearing element has a time that is neither null
\* nor the empty string.
C8_TimeNeverEmpty ==
    \A i \in 1..Len(showtimes) :
        showtimes[i].time # None /\ showtimes[i].time # <<>>

\* The slots deduplicated by their (date, time) pair: the first slot of each
\* pair, in the order of first occurrence.
RECURSIVE DedupByPair(_, _, _)
DedupByPair(sts, i, uniq) ==
    IF i > Len(sts) THEN uniq
    ELSE IF \E j \in 1..Len(uniq) :
              uniq[j].date = sts[i].date /\ uniq[j].time = sts[i].time
    THEN DedupByPair(sts, i + 1, uniq)
    ELSE DedupByPair(sts, i + 1, Append(uniq, sts[i]))

\* C9: the deduplicated result holds exactly one slot for each distinct
\* (date, time) pair of the input, the first one seen, in the order of first
\* occurrence; slots whose pairs differ are never merged.
C9_DedupByDateTime ==
    ppc \in {"dedup", "returned"} => unique = DedupByPair(showtimes, 1, <<>>)

-----------------------------------------------------------------------------
(* Properties of sanitize_for_filename                                     *)

\* The characters of [0-9A-Za-z_-].
FilenameChars == Digits \cup Lower \cup Upper \cup {"_", "-"}

\* C13: every call of either copy returns a string of characters of
\* [0-9A-Za-z_-] only; two calls on the same input return the same output,
\* whichever copies made them.
C13_SanitizePure ==
    /\ \A i \in 1..Len(calls) :
         \A k \in 1..Len(calls[i].out) : calls[i].out[k] \in FilenameChars
    /\ \A i, j \in 1..Len(calls) :
         calls[i].arg = calls[j].arg => calls[i].out = calls[j].out

\* Both copies were called on "_.é", the scrape.py copy twice: each call
\* returned the empty string.
C13_Witness ==
    /\ arg = <<"_", ".", "é">>
    /\ Len(calls) = 3
    /\ calls[1].copy = "scrape" /\ calls[2].copy = "server" /\ calls[3].copy = "scrape"
    /\ \A i \in 1..3 : calls[i].arg = arg /\ calls[i].out = <<>>

====
